---------------------------- MODULE Spec2Model ----------------------------
(***************************************************************************)
(* A model of tsz-rs: the Gorilla time series codec (StdEncoder and        *)
(* StdDecoder) and the bit stream layer under it (BufferedReader, and the  *)
(* Write trait the encoder is generic over).                               *)
(*                                                                         *)
(* Machine words.  TLC's integers are 32 bits wide, so a u64 is modelled   *)
(* as its 64 binary digits, most significant first: a sequence of length   *)
(* 64 over {0, 1}.  All u64 arithmetic of the source (wrapping and         *)
(* checked subtraction and addition, shifts, xor, or, leading_zeros,       *)
(* trailing_zeros) is defined digit by digit on that representation.  A    *)
(* u8 is a number in 0..255.  An f64 is modelled by its IEEE-754 binary64  *)
(* bit pattern, again 64 digits, so f64::from_bits is the reinterpretation *)
(* of the digits, while the numeric cast `as u64` is computed from the     *)
(* sign, exponent and mantissa fields.                                     *)
(***************************************************************************)
EXTENDS Integers, Sequences, FiniteSets, TLC

(***************************************************************************)
(* u64 as 64 binary digits, most significant first.                        *)
(***************************************************************************)
W64 == 64

Pow2(n) == 2 ^ n

\* The sequence f with its elements computed (TLC keeps [i \in S |-> exp]
\* unevaluated until it is told otherwise).
digits(f) == SubSeq(f, 1, Len(f))

\* F applied to the value of x: a local binding whose value is computed once
\* (the test x = x makes TLC compute x before it applies F).
Let(x, F(_)) == CASE x = x -> F(x)

u64_zero == digits([i \in 1..W64 |-> 0])

u64_max_value == digits([i \in 1..W64 |-> 1])

\* The u64 whose value is the natural number n (n < 2^31).
u64_from_nat(n) ==
    digits([i \in 1..W64 |-> IF W64 - i < 31 THEN (n \div Pow2(W64 - i)) % 2 ELSE 0])

\* The value of x as a natural number; used only where x < 2^31.
RECURSIVE bits_to_nat(_)
bits_to_nat(s) ==
    IF Len(s) = 0 THEN 0
    ELSE 2 * bits_to_nat(SubSeq(s, 1, Len(s) - 1)) + s[Len(s)]

\* The n binary digits of the natural number v (v < 2^31), most significant
\* first.
nat_to_bits(v, n) ==
    digits([i \in 1..n |-> IF n - i < 31 THEN (v \div Pow2(n - i)) % 2 ELSE 0])

\* The u64 whose big-endian bytes are bs (a sequence of 8 numbers in 0..255).
u64_from_bytes(bs) ==
    digits([i \in 1..W64 |-> (bs[((i - 1) \div 8) + 1] \div Pow2(7 - ((i - 1) % 8))) % 2])

\* x << n and x >> n for 0 <= n < 64 (zero fill).
u64_shl(x, n) == digits([i \in 1..W64 |-> IF i + n <= W64 THEN x[i + n] ELSE 0])

u64_shr(x, n) == digits([i \in 1..W64 |-> IF i - n >= 1 THEN x[i - n] ELSE 0])

\* u64::wrapping_shl / wrapping_shr: the shift amount is taken modulo 64.
u64_wrapping_shl(x, n) == u64_shl(x, n % W64)

u64_wrapping_shr(x, n) == u64_shr(x, n % W64)

u64_or(x, y) == digits([i \in 1..W64 |-> IF x[i] = 1 \/ y[i] = 1 THEN 1 ELSE 0])

u64_xor(x, y) == digits([i \in 1..W64 |-> IF x[i] = y[i] THEN 0 ELSE 1])

u64_not(x) == digits([i \in 1..W64 |-> 1 - x[i]])

\* Ripple-carry addition from the least significant digit; the result is
\* <<sum modulo 2^64, carry out>>.
RECURSIVE u64_add_carry(_, _, _, _, _)
u64_add_carry(x, y, i, c, acc) ==
    IF i = 0 THEN <<acc, c>>
    ELSE LET t == x[i] + y[i] + c
         IN  u64_add_carry(x, y, i - 1, t \div 2, [acc EXCEPT ![i] = t % 2])

u64_wrapping_add(x, y) == u64_add_carry(x, y, W64, 0, u64_zero)[1]

\* TRUE when x + y does not fit in 64 bits.
u64_add_overflows(x, y) == u64_add_carry(x, y, W64, 0, u64_zero)[2] = 1

\* x - y modulo 2^64, as x + ~y + 1.
u64_wrapping_sub(x, y) == u64_add_carry(x, u64_not(y), W64, 1, u64_zero)[1]

\* TRUE when x < y, that is when x - y borrows.
u64_sub_overflows(x, y) == u64_add_carry(x, u64_not(y), W64, 1, u64_zero)[2] = 0

\* x < y as unsigned numbers.
u64_lt(x, y) == u64_sub_overflows(x, y)

RECURSIVE count_zeros_from(_, _, _)
count_zeros_from(x, i, step) ==
    IF i < 1 \/ i > W64 THEN 0
    ELSE IF x[i] = 1 THEN 0
    ELSE 1 + count_zeros_from(x, i + step, step)

\* u64::leading_zeros and u64::trailing_zeros (64 for zero).
leading_zeros(x) == count_zeros_from(x, 1, 1)

trailing_zeros(x) == count_zeros_from(x, W64, -1)

\* The low n digits of x, most significant first (0 <= n <= 64).
low_bits(x, n) == SubSeq(x, W64 - n + 1, W64)

(***************************************************************************)
(* u8 arithmetic used by BufferedReader.                                   *)
(***************************************************************************)
u8_bit(b, i) == (b \div Pow2(i)) % 2

RECURSIVE u8_bitwise(_, _, _, _)
u8_bitwise(a, b, isOr, i) ==
    IF i > 7 THEN 0
    ELSE LET x == u8_bit(a, i)
             y == u8_bit(b, i)
             z == IF isOr THEN (IF x + y > 0 THEN 1 ELSE 0) ELSE x * y
         IN  z * Pow2(i) + u8_bitwise(a, b, isOr, i + 1)

u8_and(a, b) == u8_bitwise(a, b, FALSE, 0)

u8_or(a, b) == u8_bitwise(a, b, TRUE, 0)

\* u8::wrapping_shl / wrapping_shr: shift amount modulo 8, result modulo 256.
u8_wrapping_shl(b, n) == (b * Pow2(n % 8)) % 256

\* The shift of a signed byte: the sign digit fills from the left.
u8_wrapping_shr_signed(b, n) ==
    IF b >= 128 THEN (b \div Pow2(n % 8)) + 256 - Pow2(8 - (n % 8))
    ELSE b \div Pow2(n % 8)

u8_wrapping_shr(b, n) == b \div Pow2(n % 8)

\* Bit::to_u64
to_u64(bit) == u64_from_nat(bit)


(***************************************************************************)
(* BufferedReader (stream/buffered_read.rs).  A reader is the record       *)
(* [bytes, index, pos].  Every operation returns [r, ok, val]: the reader  *)
(* after the call, whether it returned Ok, and the value (0 on             *)
(* Err(Error::EOF)).  The reader after a failed call is the reader as the  *)
(* code left it when `?` returned early.                                   *)
(***************************************************************************)
BufferedReader_new(bytes) == [bytes |-> bytes, index |-> 0, pos |-> 0]

\* self.bytes.get(self.index).map(|byte| *byte).ok_or(Error::EOF)
get_byte(r) ==
    IF r.index < Len(r.bytes)
    THEN [ok |-> TRUE, val |-> r.bytes[r.index + 1]]
    ELSE [ok |-> FALSE, val |-> 0]

\* The bit taken from the low end of the byte.
read_bit_low(r) ==
    Let(IF r.pos = 8 THEN [r EXCEPT !.index = r.index + 1, !.pos = 0] ELSE r,
        LAMBDA r1 :
    Let(get_byte(r1), LAMBDA b :
        IF ~b.ok THEN [r |-> r1, ok |-> FALSE, val |-> 0]
        ELSE [r   |-> [r1 EXCEPT !.pos = r1.pos + 1],
              ok  |-> TRUE,
              val |-> IF u8_and(b.val, u8_wrapping_shl(1, r1.pos)) = 0
                      THEN 0 ELSE 1]))

read_bit(r) ==
    Let(IF r.pos = 8 THEN [r EXCEPT !.index = r.index + 1, !.pos = 0] ELSE r,
        LAMBDA r1 :
    Let(get_byte(r1), LAMBDA b :
        IF ~b.ok THEN [r |-> r1, ok |-> FALSE, val |-> 0]
        ELSE [r   |-> [r1 EXCEPT !.pos = r1.pos + 1],
              ok  |-> TRUE,
              val |-> IF u8_and(b.val, u8_wrapping_shl(1, 7 - r1.pos)) = 0
                      THEN 0 ELSE 1]))

\* The unaligned byte with its second half shifted by pos, not by 8 - pos.
read_byte_shift(r) ==
    IF r.pos = 0 THEN
        Let([r EXCEPT !.pos = r.pos + 8], LAMBDA r1 :
        Let(get_byte(r1), LAMBDA b :
            [r |-> r1, ok |-> b.ok, val |-> b.val]))
    ELSE IF r.pos = 8 THEN
        Let([r EXCEPT !.index = r.index + 1], LAMBDA r1 :
        Let(get_byte(r1), LAMBDA b :
            [r |-> r1, ok |-> b.ok, val |-> b.val]))
    ELSE
        Let(get_byte(r), LAMBDA b1 :
            IF ~b1.ok THEN [r |-> r, ok |-> FALSE, val |-> 0] ELSE
        Let(u8_or(0, u8_wrapping_shl(b1.val, r.pos)), LAMBDA byte :
        Let([r EXCEPT !.index = r.index + 1], LAMBDA r1 :
        Let(get_byte(r1), LAMBDA b2 :
            IF ~b2.ok THEN [r |-> r1, ok |-> FALSE, val |-> 0]
            ELSE [r   |-> r1,
                  ok  |-> TRUE,
                  val |-> u8_or(byte, u8_wrapping_shr(b2.val, r.pos))]))))

read_byte(r) ==
    IF r.pos = 0 THEN
        Let([r EXCEPT !.pos = r.pos + 8], LAMBDA r1 :
        Let(get_byte(r1), LAMBDA b :
            [r |-> r1, ok |-> b.ok, val |-> b.val]))
    ELSE IF r.pos = 8 THEN
        Let([r EXCEPT !.index = r.index + 1], LAMBDA r1 :
        Let(get_byte(r1), LAMBDA b :
            [r |-> r1, ok |-> b.ok, val |-> b.val]))
    ELSE
        Let(get_byte(r), LAMBDA b1 :
            IF ~b1.ok THEN [r |-> r, ok |-> FALSE, val |-> 0] ELSE
        Let(u8_or(0, u8_wrapping_shl(b1.val, r.pos)), LAMBDA byte :
        Let([r EXCEPT !.index = r.index + 1], LAMBDA r1 :
        Let(get_byte(r1), LAMBDA b2 :
            IF ~b2.ok THEN [r |-> r1, ok |-> FALSE, val |-> 0]
            ELSE [r   |-> r1,
                  ok  |-> TRUE,
                  val |-> u8_or(byte, u8_wrapping_shr(b2.val, 8 - r.pos))]))))

\* The two loops of read_bits: whole bytes while num_bits >= 8, then bits.
RECURSIVE read_bits_loop(_, _, _)
read_bits_loop(r, bits, num_bits) ==
    IF num_bits >= 8 THEN
        Let(read_byte(r), LAMBDA b :
            IF ~b.ok THEN [r |-> b.r, ok |-> FALSE, val |-> u64_zero]
            ELSE read_bits_loop(b.r,
                                u64_or(u64_wrapping_shl(bits, 8), u64_from_nat(b.val)),
                                num_bits - 8))
    ELSE IF num_bits > 0 THEN
        Let(read_bit(r), LAMBDA b :
            IF ~b.ok THEN [r |-> b.r, ok |-> FALSE, val |-> u64_zero]
            ELSE read_bits_loop(b.r,
                                u64_or(u64_wrapping_shl(bits, 1), to_u64(b.val)),
                                num_bits - 1))
    ELSE [r |-> r, ok |-> TRUE, val |-> bits]

read_bits(r, num_bits) ==
    read_bits_loop(r, u64_zero, IF num_bits > 64 THEN 64 ELSE num_bits)

\* peak_bits without the reset of index and pos.
peak_bits_no_reset(r, num_bits) == read_bits(r, num_bits)

peak_bits(r, num_bits) ==
    Let(read_bits(r, num_bits), LAMBDA b :
        IF ~b.ok THEN b
        ELSE [r   |-> [b.r EXCEPT !.index = r.index, !.pos = r.pos],
              ok  |-> TRUE,
              val |-> b.val])

(***************************************************************************)
(* The build.  Rust's +, - and << on integers panic on overflow when the   *)
(* crate is built with overflow checks (the default of the dev and test    *)
(* profiles) and wrap when it is built without them (the default of the    *)
(* release profile).  overflow_checks is fixed for a whole run; the        *)
(* methods take it as their parameter `checks`.                            *)
(***************************************************************************)
VARIABLES
    overflow_checks,  \* whether the build panics on arithmetic overflow
    phase,            \* "encoding", "decoding", "reading", "writing", "replaying"
    base_time,        \* the base time the encoder was created with
    e,                \* the StdEncoder
    pts,              \* the data points passed to encode so far
    d,                \* the StdDecoder (d.r is its BufferedReader)
    out,              \* the results of the calls of next so far
    rd,               \* a BufferedReader used on its own
    last,             \* the last operation on rd and its result
    rt,               \* a BufferedWriter, the calls made on it and their replay
    panicked          \* a call panicked: the program is gone

vars == <<overflow_checks, phase, base_time, e, pts, d, out, rd, last, rt,
          panicked>>

(***************************************************************************)
(* StdDecoder (decode/std_decoder.rs).  Each method returns the record     *)
(* [d, ok, val, err, eof_at, panic]: the decoder after the call, Ok or     *)
(* Err, the Ok value, the decode::Error, the read at which the bit layer   *)
(* returned EOF ("none" when it did not), and whether the call panicked.   *)
(***************************************************************************)
END_MARKER == u64_shl(u64_from_nat(15), 32)

END_MARKER_LEN == 36

StdDecoder_new(r) ==
    [time |-> u64_zero, delta |-> u64_zero, value_bits |-> u64_zero,
     xor |-> u64_zero, leading_zeroes |-> 0, trailing_zeroes |-> 0,
     first |-> TRUE, done |-> FALSE, r |-> r]

DecOk(dd, v) ==
    [d |-> dd, ok |-> TRUE, val |-> v, err |-> "none", eof_at |-> "none",
     panic |-> FALSE]

DecErr(dd, err, at) ==
    [d |-> dd, ok |-> FALSE, val |-> u64_zero, err |-> err, eof_at |-> at,
     panic |-> FALSE]

DecPanic(dd) ==
    [d |-> dd, ok |-> FALSE, val |-> u64_zero, err |-> "panic",
     eof_at |-> "none", panic |-> TRUE]

\* self.time += x: panics on overflow under overflow checks, wraps otherwise.
time_add_assign(dd, x, checks) ==
    IF checks /\ u64_add_overflows(dd.time, x) THEN DecPanic(dd)
    ELSE Let(u64_wrapping_add(dd.time, x), LAMBDA t :
             DecOk([dd EXCEPT !.time = t], t))

\* The reader's error passed on with `?` instead of being mapped.
read_initial_timestamp_eof(dd) ==
    Let(read_bits(dd.r, 64), LAMBDA b :
        IF ~b.ok
        THEN DecErr([dd EXCEPT !.r = b.r], "Stream_EOF", "header")
        ELSE DecOk([dd EXCEPT !.r = b.r, !.time = b.val], b.val))

read_initial_timestamp(dd) ==
    Let(read_bits(dd.r, 64), LAMBDA b :
        IF ~b.ok
        THEN DecErr([dd EXCEPT !.r = b.r], "InvalidInitialTimestamp", "header")
        ELSE DecOk([dd EXCEPT !.r = b.r, !.time = b.val], b.val))

\* The 36 bits read where the first control bit was 1.
\* The marker recognised by its four leading ones alone.
read_end_marker_ones(dd) ==
    Let(read_bits(dd.r, END_MARKER_LEN), LAMBDA m :
    Let([dd EXCEPT !.r = m.r], LAMBDA d2 :
        IF ~m.ok THEN DecErr(d2, "Stream_EOF", "marker")
        ELSE IF u64_shr(m.val, 32) = u64_from_nat(15)
        THEN DecErr(d2, "EndOfStream", "none")
        ELSE DecErr(d2, "InvalidEndOfStream", "none")))

read_end_marker(dd) ==
    Let(read_bits(dd.r, END_MARKER_LEN), LAMBDA m :
    Let([dd EXCEPT !.r = m.r], LAMBDA d2 :
        IF ~m.ok THEN DecErr(d2, "Stream_EOF", "marker")
        ELSE IF m.val = END_MARKER THEN DecErr(d2, "EndOfStream", "none")
        ELSE DecErr(d2, "InvalidEndOfStream", "none")))

read_first_timestamp(dd, checks) ==
    Let(read_initial_timestamp(dd), LAMBDA a :
        IF ~a.ok THEN a ELSE
    Let(peak_bits(a.d.r, 1), LAMBDA p :
    Let([a.d EXCEPT !.r = p.r], LAMBDA d1 :
        IF ~p.ok THEN DecErr(d1, "Stream_EOF", "peek") ELSE
        IF p.val = u64_from_nat(1) THEN read_end_marker(d1) ELSE
    Let(read_bit(d1.r), LAMBDA c :
    Let([d1 EXCEPT !.r = c.r], LAMBDA d3 :
        IF ~c.ok THEN DecErr(d3, "Stream_EOF", "control") ELSE
    Let(read_bits(d3.r, 14), LAMBDA g :
    Let([d3 EXCEPT !.r = g.r], LAMBDA d4 :
        IF ~g.ok THEN DecErr(d4, "Stream_EOF", "delta")
        ELSE time_add_assign([d4 EXCEPT !.delta = g.val], g.val, checks))))))))

\* for _ in 0..4 { read_bit; count the ones; stop at the first zero }
RECURSIVE read_control_bits(_, _, _)
read_control_bits(r, control_bits, i) ==
    IF i = 4 THEN [r |-> r, ok |-> TRUE, val |-> control_bits]
    ELSE Let(read_bit(r), LAMBDA b :
             IF ~b.ok THEN [r |-> b.r, ok |-> FALSE, val |-> control_bits]
             ELSE IF b.val = 1 THEN read_control_bits(b.r, control_bits + 1, i + 1)
             ELSE [r |-> b.r, ok |-> TRUE, val |-> control_bits])

\* if dod > (1 << (size - 1)) { dod |= u64::max_value() << size }
\* The sign taken from payload >= 2^(size-1).
sign_extend_ge(dod, size) ==
    IF ~u64_lt(dod, u64_shl(u64_from_nat(1), size - 1))
    THEN u64_or(dod, u64_shl(u64_max_value, size))
    ELSE dod

sign_extend(dod, size) ==
    IF u64_lt(u64_shl(u64_from_nat(1), size - 1), dod)
    THEN u64_or(dod, u64_shl(u64_max_value, size))
    ELSE dod

\* control_bits = 4: the 32-bit payload.
\* A stream that ends inside the 32 bits taken for the end of the stream.
read_dod_32_end(dd) ==
    Let(read_bits(dd.r, 32), LAMBDA b :
    Let([dd EXCEPT !.r = b.r], LAMBDA d2 :
        IF ~b.ok THEN DecErr(d2, "EndOfStream", "dod")
        ELSE IF b.val = u64_zero THEN DecErr(d2, "EndOfStream", "none")
        ELSE DecOk(d2, b.val)))

read_dod_32(dd) ==
    Let(read_bits(dd.r, 32), LAMBDA b :
    Let([dd EXCEPT !.r = b.r], LAMBDA d2 :
        IF ~b.ok THEN DecErr(d2, "Stream_EOF", "dod")
        ELSE IF b.val = u64_zero THEN DecErr(d2, "EndOfStream", "none")
        ELSE DecOk(d2, b.val)))

\* control_bits = 1, 2, 3: the payload of `size` bits, sign extended.
read_dod(dd, size) ==
    Let(read_bits(dd.r, size), LAMBDA b :
    Let([dd EXCEPT !.r = b.r], LAMBDA d2 :
        IF ~b.ok THEN DecErr(d2, "Stream_EOF", "dod") ELSE
    Let(sign_extend(b.val, size), LAMBDA dod :
    Let(u64_wrapping_add(d2.delta, dod), LAMBDA delta :
    Let(u64_wrapping_add(d2.time, delta), LAMBDA time :
        DecOk([d2 EXCEPT !.delta = delta, !.time = time], time))))))

read_next_timestamp(dd, checks) ==
    Let(read_control_bits(dd.r, 0, 0), LAMBDA c :
    Let([dd EXCEPT !.r = c.r], LAMBDA d1 :
        IF ~c.ok THEN DecErr(d1, "Stream_EOF", "control")
        ELSE IF c.val = 0 THEN time_add_assign(d1, d1.delta, checks)
        ELSE IF c.val = 4 THEN read_dod_32(d1)
        ELSE read_dod(d1, CASE c.val = 1 -> 7 [] c.val = 2 -> 9 [] c.val = 3 -> 12)))

read_first_value(dd) ==
    Let(read_bits(dd.r, 64), LAMBDA b :
        IF ~b.ok THEN DecErr([dd EXCEPT !.r = b.r], "Stream_EOF", "value")
        ELSE DecOk([dd EXCEPT !.r = b.r, !.value_bits = b.val], b.val))

(***************************************************************************)
(* leading_zeroes and trailing_zeroes are u32.  A u32 is modelled by the   *)
(* integer in -2^31 .. 2^31-1 with the same 32 binary digits, so the       *)
(* wrapped result of 64 - l - s is the (negative) integer itself, and the  *)
(* shift amount of an unchecked << on u64 is that integer modulo 64.       *)
(***************************************************************************)
\* zeroes_bit = 1: the 6 bits of leading_zeroes and of significant_digits - 1.
read_window(dd, checks) ==
    Let(read_bits(dd.r, 6), LAMBDA l :
        IF ~l.ok THEN DecErr([dd EXCEPT !.r = l.r], "Stream_EOF", "window") ELSE
    Let(bits_to_nat(low_bits(l.val, 6)), LAMBDA lz :
    Let(read_bits(l.r, 6), LAMBDA s :
    Let([dd EXCEPT !.r = s.r, !.leading_zeroes = lz], LAMBDA d1 :
        IF ~s.ok THEN DecErr(d1, "Stream_EOF", "window") ELSE
    Let(bits_to_nat(low_bits(s.val, 6)) + 1, LAMBDA significant_digits :
        IF checks /\ 64 - lz - significant_digits < 0 THEN DecPanic(d1)
        ELSE DecOk([d1 EXCEPT !.trailing_zeroes = 64 - lz - significant_digits],
                   u64_zero))))))

\* The significant bits of the xor, read with the window of dd.
read_significant(dd, checks) ==
    Let(64 - dd.leading_zeroes - dd.trailing_zeroes, LAMBDA size :
        IF checks /\ size < 0 THEN DecPanic(dd) ELSE
    Let(read_bits(dd.r, size), LAMBDA b :
    Let([dd EXCEPT !.r = b.r], LAMBDA d1 :
        IF ~b.ok THEN DecErr(d1, "Stream_EOF", "value")
        ELSE IF checks /\ (d1.trailing_zeroes < 0 \/ d1.trailing_zeroes >= 64)
        THEN DecPanic(d1)
        ELSE Let(u64_xor(d1.value_bits, u64_shl(b.val, d1.trailing_zeroes % 64)),
                 LAMBDA v : DecOk([d1 EXCEPT !.value_bits = v], v)))))

read_next_value(dd, checks) ==
    Let(read_bit(dd.r), LAMBDA c :
    Let([dd EXCEPT !.r = c.r], LAMBDA d1 :
        IF ~c.ok THEN DecErr(d1, "Stream_EOF", "value_control") ELSE
        IF c.val = 0 THEN DecOk(d1, d1.value_bits) ELSE
    Let(read_bit(d1.r), LAMBDA z :
    Let([d1 EXCEPT !.r = z.r], LAMBDA d2 :
        IF ~z.ok THEN DecErr(d2, "Stream_EOF", "value_control") ELSE
        IF z.val = 0 THEN read_significant(d2, checks) ELSE
    Let(read_window(d2, checks), LAMBDA win :
        IF ~win.ok THEN win ELSE read_significant(win.d, checks))))))

\* f64::from_bits: the f64 with the given binary digits.
f64_from_bits(bits) == bits

(***************************************************************************)
(* Decode::next.  The result is [d, res]: the decoder after the call and   *)
(* the value returned, a record [kind, time, value, eof_at] with kind      *)
(* "Point", one of the four decode::Error names, or "panic".               *)
(***************************************************************************)
\* The error passed on without done being recorded.
NextErr_no_done(x, setDone) ==
    [d   |-> x.d,
     res |-> [kind |-> x.err, time |-> u64_zero, value |-> u64_zero,
              eof_at |-> x.eof_at]]

NextErr(x, setDone) ==
    [d   |-> IF setDone /\ x.err = "EndOfStream" THEN [x.d EXCEPT !.done = TRUE]
             ELSE x.d,
     res |-> [kind |-> x.err, time |-> u64_zero, value |-> u64_zero,
              eof_at |-> x.eof_at]]

\* next without the early return on done.
StdDecoder_next_on(dd, checks) ==
    Let([dd EXCEPT !.first = FALSE], LAMBDA d0 :
    Let(IF dd.first THEN read_first_timestamp(d0, checks)
        ELSE read_next_timestamp(d0, checks), LAMBDA t :
        IF ~t.ok THEN NextErr(t, TRUE) ELSE
    Let(IF dd.first THEN read_first_value(t.d)
        ELSE read_next_value(t.d, checks), LAMBDA v :
        IF ~v.ok THEN NextErr(v, FALSE)
        ELSE [d   |-> v.d,
              res |-> [kind |-> "Point", time |-> t.val,
                       value |-> f64_from_bits(v.val), eof_at |-> "none"]])))

StdDecoder_next(dd, checks) ==
    IF dd.done
    THEN [d   |-> dd,
          res |-> [kind |-> "EndOfStream", time |-> u64_zero, value |-> u64_zero,
                   eof_at |-> "none"]]
    ELSE
    Let([dd EXCEPT !.first = FALSE], LAMBDA d0 :
    Let(IF dd.first THEN read_first_timestamp(d0, checks)
        ELSE read_next_timestamp(d0, checks), LAMBDA t :
        IF ~t.ok THEN NextErr(t, TRUE) ELSE
    Let(IF dd.first THEN read_first_value(t.d)
        ELSE read_next_value(t.d, checks), LAMBDA v :
        IF ~v.ok THEN NextErr(v, FALSE)
        ELSE [d   |-> v.d,
              res |-> [kind |-> "Point", time |-> t.val,
                       value |-> f64_from_bits(v.val), eof_at |-> "none"]])))

(***************************************************************************)
(* The Write trait (stream/mod.rs) and its BufferedWriter.  The writer is  *)
(* modelled by the sequence of bits written so far; close packs them,      *)
(* most significant bit first, into bytes, the unwritten bits of the last  *)
(* byte being zero.                                                        *)
(***************************************************************************)
BufferedWriter_new == <<>>

write_bit(w, bit) == Append(w, bit)

write_byte(w, byte) == w \o nat_to_bits(byte, 8)

\* Write the bottom `num` bits of `bits`, most significant of them first.
write_bits(w, bits, num) == w \o low_bits(bits, num)

writer_close(w) ==
    LET n == (Len(w) + 7) \div 8
        bit(k) == IF k <= Len(w) THEN w[k] ELSE 0
    IN  digits([j \in 1..n |->
            bit(8*j - 7) * 128 + bit(8*j - 6) * 64 + bit(8*j - 5) * 32
          + bit(8*j - 4) * 16 + bit(8*j - 3) * 8 + bit(8*j - 2) * 4
          + bit(8*j - 1) * 2 + bit(8*j)])

(***************************************************************************)
(* Numeric casts.                                                          *)
(***************************************************************************)
\* `value as u64` for an f64: the value truncated toward zero and
\* saturated to the range of u64, NaN giving 0.  v is the f64's digits:
\* v[1] the sign, v[2..12] the biased exponent, v[13..64] the mantissa.
f64_as_u64(v) ==
    LET exp  == bits_to_nat(SubSeq(v, 2, 12))
        mant == digits([i \in 1..W64 |-> IF i >= 13 THEN v[i] ELSE 0])
        sig  == [mant EXCEPT ![12] = 1]
        ex   == exp - 1023
    IN  IF exp = 2047 /\ mant # u64_zero THEN u64_zero
        ELSE IF v[1] = 1 THEN u64_zero
        ELSE IF exp < 1023 THEN u64_zero
        ELSE IF ex >= 64 THEN u64_max_value
        ELSE IF ex <= 52 THEN u64_shr(sig, 52 - ex)
        ELSE u64_shl(sig, ex - 52)

\* `x as i32` for a u64: the low 32 digits read as a two's complement number.
u64_as_i32(x) ==
    LET lo == bits_to_nat(low_bits(x, 31))
    IN  IF x[33] = 1 THEN lo - 1073741824 - 1073741824 ELSE lo

\* `dod as u64` for an i32: sign extension to 64 digits.
i32_as_u64(dod) ==
    IF dod >= 0 THEN u64_from_nat(dod)
    ELSE LET lo == nat_to_bits(dod + 1073741824 + 1073741824, 31)
         IN  digits([i \in 1..W64 |-> IF i <= 33 THEN 1 ELSE lo[i - 33]])

(***************************************************************************)
(* StdEncoder (encode/std_encoder.rs).  Each method returns [e, panic]:    *)
(* the encoder after the call and whether the call panicked.               *)
(***************************************************************************)
\* The stored window starting at 64 leading and 64 trailing zeros.
StdEncoder_new_full(start, w) ==
    [time |-> start, delta |-> u64_zero, value_bits |-> u64_zero,
     leading_zeroes |-> 64, trailing_zeroes |-> 64, first |-> FALSE,
     w |-> write_bits(w, start, 64)]

StdEncoder_new(start, w) ==
    [time |-> start, delta |-> u64_zero, value_bits |-> u64_zero,
     leading_zeroes |-> 0, trailing_zeroes |-> 0, first |-> FALSE,
     w |-> write_bits(w, start, 64)]

write_first(ee, dp, checks) ==
    Let(ee.time, LAMBDA start :
    Let([ee EXCEPT !.time = dp.time, !.value_bits = f64_as_u64(dp.value)],
        LAMBDA e1 :
        IF checks /\ u64_sub_overflows(e1.time, start)
        THEN [e |-> e1, panic |-> TRUE] ELSE
    Let([e1 EXCEPT !.delta = u64_wrapping_sub(e1.time, start)], LAMBDA e2 :
    Let(write_bit(e2.w, 0), LAMBDA w1 :
    Let(write_bits(w1, e2.delta, 14), LAMBDA w2 :
    Let(write_bits(w2, e2.value_bits, 64), LAMBDA w3 :
        [e |-> [e2 EXCEPT !.w = w3, !.first = TRUE], panic |-> FALSE]))))))

\* match dod { 0 => .., -63...64 => .., -255...256 => .., -2047...2048 => .., _ => .. }
\* The ranges taken as -64..63, -256..255 and -2048..2047.
write_dod_symmetric(w, dod) ==
    IF dod = 0 THEN write_bit(w, 0)
    ELSE IF dod >= -64 /\ dod <= 63
         THEN write_bits(write_bits(w, u64_from_nat(2), 2), i32_as_u64(dod), 7)
    ELSE IF dod >= -256 /\ dod <= 255
         THEN write_bits(write_bits(w, u64_from_nat(6), 3), i32_as_u64(dod), 9)
    ELSE IF dod >= -2048 /\ dod <= 2047
         THEN write_bits(write_bits(w, u64_from_nat(14), 4), i32_as_u64(dod), 12)
    ELSE write_bits(write_bits(w, u64_from_nat(15), 4), i32_as_u64(dod), 32)

write_dod(w, dod) ==
    IF dod = 0 THEN write_bit(w, 0)
    ELSE IF dod >= -63 /\ dod <= 64
         THEN write_bits(write_bits(w, u64_from_nat(2), 2), i32_as_u64(dod), 7)
    ELSE IF dod >= -255 /\ dod <= 256
         THEN write_bits(write_bits(w, u64_from_nat(6), 3), i32_as_u64(dod), 9)
    ELSE IF dod >= -2047 /\ dod <= 2048
         THEN write_bits(write_bits(w, u64_from_nat(14), 4), i32_as_u64(dod), 12)
    ELSE write_bits(write_bits(w, u64_from_nat(15), 4), i32_as_u64(dod), 32)

\* The first arm of the match decided on the 64-bit difference, before the
\* cast to i32.
write_next_timestamp_wide(ee, time, checks) ==
    IF checks /\ u64_sub_overflows(time, ee.time)
    THEN [e |-> ee, panic |-> TRUE] ELSE
    Let(u64_wrapping_sub(time, ee.time), LAMBDA delta :
    Let(u64_wrapping_sub(delta, ee.delta), LAMBDA wide :
    Let(u64_as_i32(wide), LAMBDA dod :
        [e |-> [ee EXCEPT !.w = IF dod = 0 /\ wide # u64_zero
                                THEN write_bits(write_bits(ee.w, u64_from_nat(15), 4),
                                                i32_as_u64(dod), 32)
                                ELSE write_dod(ee.w, dod),
                          !.delta = delta,
                          !.time = time],
         panic |-> FALSE])))

write_next_timestamp(ee, time, checks) ==
    IF checks /\ u64_sub_overflows(time, ee.time)
    THEN [e |-> ee, panic |-> TRUE] ELSE
    Let(u64_wrapping_sub(time, ee.time), LAMBDA delta :
    Let(u64_as_i32(u64_wrapping_sub(delta, ee.delta)), LAMBDA dod :
        [e |-> [ee EXCEPT !.w = write_dod(ee.w, dod), !.delta = delta,
                          !.time = time],
         panic |-> FALSE]))

\* The xor is not zero: the control bit 1, then the window and the digits.
write_xor(ee, xor) ==
    Let(write_bit(ee.w, 1), LAMBDA w1 :
    Let(leading_zeros(xor), LAMBDA leading_zeroes :
    Let(trailing_zeros(xor), LAMBDA trailing_zeroes :
        IF leading_zeroes < ee.leading_zeroes /\ trailing_zeroes < ee.trailing_zeroes
        THEN [ee EXCEPT !.w =
                write_bits(write_bit(w1, 0),
                           u64_wrapping_shl(xor, trailing_zeroes),
                           64 - leading_zeroes - trailing_zeroes)]
        ELSE
    Let(64 - leading_zeroes - trailing_zeroes, LAMBDA significant_digits :
        [ee EXCEPT
            !.w = write_bits(
                    write_bits(
                      write_bits(write_bit(w1, 1), u64_from_nat(leading_zeroes), 6),
                      u64_from_nat(significant_digits - 1), 6),
                    u64_wrapping_shl(xor, trailing_zeroes),
                    significant_digits),
            !.leading_zeroes = leading_zeroes,
            !.trailing_zeroes = trailing_zeroes]))))

write_next_value(ee, value) ==
    Let(f64_as_u64(value), LAMBDA value_bits :
    Let(u64_xor(value_bits, ee.value_bits), LAMBDA xor :
        IF xor = u64_zero
        THEN [e |-> [ee EXCEPT !.w = write_bit(ee.w, 0)], panic |-> FALSE]
        ELSE [e |-> write_xor(ee, xor), panic |-> FALSE]))

write_next(ee, dp, checks) ==
    Let(write_next_timestamp(ee, dp.time, checks), LAMBDA t :
        IF t.panic THEN t ELSE write_next_value(t.e, dp.value))

StdEncoder_encode(ee, dp, checks) ==
    IF ~ee.first THEN write_first(ee, dp, checks) ELSE write_next(ee, dp, checks)

\* The marker written without its four leading ones.
StdEncoder_close_short(ee) == [ee EXCEPT !.w = write_bits(ee.w, END_MARKER, 32)]

\* close writes the end marker; the bytes returned are writer_close of e.w.
StdEncoder_close(ee) == [ee EXCEPT !.w = write_bits(ee.w, END_MARKER, 36)]

(***************************************************************************)
(* Inputs.                                                                 *)
(***************************************************************************)
MaxPoints == 2     \* points encoded in one run
MaxCalls == 4      \* calls of next on one decoder
MaxReads == 3      \* operations on a reader used on its own
MaxWrites == 3     \* calls on a writer used on its own
MaxValues == 3     \* points encoded in one run of the value codes
MaxDecodes == 8    \* calls of next by a caller that stops at the first error

\* 2016-12-20T21:07:35+00:00, the start time of the tests.
StartTime == u64_from_nat(1482268055)

BaseTimes == {StartTime, u64_zero, u64_max_value}

\* Timestamps after StartTime, and one before it.
Times == {u64_from_nat(1482268050), u64_from_nat(1482268065),
          u64_from_nat(1482268075), u64_from_nat(1482268087)}

\* f64 values by their IEEE-754 digits: 1.0, 1.5 and 12.0.
F64_1_0 == u64_from_bytes(<<63, 240, 0, 0, 0, 0, 0, 0>>)
F64_1_5 == u64_from_bytes(<<63, 248, 0, 0, 0, 0, 0, 0>>)
F64_12_0 == u64_from_bytes(<<64, 40, 0, 0, 0, 0, 0, 0>>)

Values == {F64_1_0, F64_1_5, F64_12_0}

DataPoint_new(time, value) == [time |-> time, value |-> value]

DataPoints == {DataPoint_new(t, v) : t \in Times, v \in Values}

\* 4.0 and 24.0; with 1.0 and 12.0, values whose casts to u64 (1, 4, 12, 24)
\* differ from each other in windows of several widths and places.
F64_4_0 == u64_from_bytes(<<64, 16, 0, 0, 0, 0, 0, 0>>)
F64_24_0 == u64_from_bytes(<<64, 56, 0, 0, 0, 0, 0, 0>>)

XorValues == {F64_1_0, F64_4_0, F64_12_0, F64_24_0}

\* 16106127361.0 and 9799797604786110464.0: with 1.0, values whose casts
\* differ from 1 in a window of 4 digits (30 leading, 30 trailing zeros) and
\* in all 64 digits (0x87FFE00000000001).
F64_narrow == u64_from_bytes(<<66, 14, 0, 0, 0, 8, 0, 0>>)
F64_wide == u64_from_bytes(<<67, 224, 255, 252, 0, 0, 0, 0>>)

WinValues == {F64_1_0, F64_narrow, F64_wide}

\* The i-th point of a run at a constant interval of 3000 from StartTime.
XorPoint(i, value) == DataPoint_new(u64_from_nat(1482268055 + 3000 * i), value)

\* The byte streams of the decoder's tests, and streams with the codes and
\* the malformations those do not have.
Prefixes(bytes) == {SubSeq(bytes, 1, n) : n \in 0..Len(bytes)}

HeaderBits == low_bits(StartTime, 64)

FirstPointBits == <<0>> \o nat_to_bits(10, 14) \o F64_1_0

StreamEmpty == <<0, 0, 0, 0, 88, 89, 157, 151, 240, 0, 0, 0, 0>>

\* The bare header of an encoder created at u64::MAX.
StreamEmptyMax == writer_close(u64_max_value \o low_bits(END_MARKER, 36))

StreamOne ==
    <<0, 0, 0, 0, 88, 89, 157, 151, 0, 20, 127, 231, 174, 20, 122, 225, 71, 175,
      224, 0, 0, 0, 0>>

StreamFive ==
    <<0, 0, 0, 0, 88, 89, 157, 151, 0, 20, 127, 231, 174, 20, 122, 225, 71, 174,
      204, 207, 30, 71, 145, 228, 121, 30, 96, 88, 61, 255, 253, 91, 214, 245,
      189, 111, 91, 3, 232, 1, 245, 97, 88, 86, 21, 133, 55, 202, 1, 17, 15, 92,
      40, 245, 194, 151, 128, 0, 0, 0, 0>>

\* A header, then 36 bits that start with 1 and are not the end marker.
StreamBadMarkerA == writer_close(HeaderBits \o <<1, 1, 1, 1>> \o nat_to_bits(1, 32))

StreamBadMarkerB == writer_close(HeaderBits \o <<1>> \o nat_to_bits(0, 35) \o <<1, 1>>)

\* One point, then a 12-bit code (dod 2048, value unchanged), a 32-bit
\* code (dod 4096, a new window of 3 bits), a 1-bit code with the window
\* reused, the end marker.
StreamWide ==
    writer_close(HeaderBits \o FirstPointBits
                 \o <<1, 1, 1, 0>> \o nat_to_bits(2048, 12) \o <<0>>
                 \o <<1, 1, 1, 1>> \o nat_to_bits(4096, 32)
                 \o <<1, 1>> \o nat_to_bits(60, 6) \o nat_to_bits(2, 6) \o <<1, 0, 1>>
                 \o <<0>> \o <<1, 0>> \o <<0, 1, 1>>
                 \o low_bits(END_MARKER, 36))

Streams == {StreamEmpty, StreamEmptyMax, StreamOne, StreamFive, StreamBadMarkerA,
            StreamBadMarkerB, StreamWide}

DecInputs == UNION {Prefixes(b) : b \in Streams}

\* A header of u64::MAX, then a first point with the delta 10.
StreamOverflow ==
    writer_close(u64_max_value \o FirstPointBits \o low_bits(END_MARKER, 36))

\* One point, then a point with a 1-bit code and a new window of 63 leading
\* zeros and 64 significant digits, 64 digits, the end marker.
StreamBadWindow ==
    writer_close(HeaderBits \o FirstPointBits
                 \o <<0>> \o <<1, 1>> \o nat_to_bits(63, 6) \o nat_to_bits(63, 6)
                 \o F64_1_5
                 \o low_bits(END_MARKER, 36))

\* Any bytes: those of DecInputs and the two streams above.
AnyInputs == DecInputs \cup {StreamOverflow, StreamBadWindow}

ReadInputs == {<<>>, <<255>>, <<109, 109>>, <<100, 25, 0, 240, 240>>,
               <<87, 29, 245, 20>>, <<0, 0, 0, 0, 88, 89, 157, 151, 240>>}

Widths == {1, 3, 4, 8, 12, 20, 22, 64}

\* Points for the delta of delta codes: a first point 3000 after StartTime,
\* and points that follow it with a delta of delta at the ends of the ranges
\* of the codes, and with one of 2^32.
Boundaries == {0, 64, -64, 65, -65, 256, -256, 257, -257, 2048, -2048, 2049, -2049}

DodFirst == DataPoint_new(u64_from_nat(1482268055 + 3000), F64_1_0)

DodTime(dod) == u64_from_nat(1482268055 + 3000 + 3000 + dod)

DodFar == DataPoint_new(u64_wrapping_add(DodTime(0), u64_shl(u64_from_nat(1), 32)),
                        F64_1_0)

DodPoints == {DodFirst, DodFar}
             \cup {DataPoint_new(DodTime(dod), F64_1_0) : dod \in Boundaries}

\* What is written to a writer used on its own: bytes, and fields
\* <<bits, num>> with digits above the low num.
WrittenBytes == {109, 240}

WrittenFields == {<<F64_1_5, 64>>, <<u64_from_nat(2049), 12>>,
                  <<u64_max_value, 7>>, <<u64_from_nat(5), 3>>}

(***************************************************************************)
(* The state machine.                                                      *)
(***************************************************************************)
NoReader == BufferedReader_new(<<>>)

NoEncoder == StdEncoder_new(u64_zero, BufferedWriter_new)

NoLast == [op |-> "none", n |-> 0, ok |-> TRUE, val |-> u64_zero,
           before |-> NoReader, count |-> 0, k |-> 0, reads_ok |-> TRUE]

NoWrites == [w |-> BufferedWriter_new, ops |-> <<>>, got |-> <<>>]

\* An encoder is created over an empty writer; its points are encoded, it
\* is closed, and a decoder reads the bytes it returned.
Init ==
    /\ overflow_checks \in BOOLEAN
    /\ phase = "encoding"
    /\ base_time \in BaseTimes
    /\ e = StdEncoder_new(base_time, BufferedWriter_new)
    /\ pts = <<>>
    /\ d = StdDecoder_new(NoReader)
    /\ out = <<>>
    /\ rd = NoReader
    /\ last = NoLast
    /\ rt = NoWrites
    /\ panicked = FALSE

Encode(dp) ==
    /\ phase = "encoding"
    /\ ~panicked
    /\ Len(pts) < MaxPoints
    /\ \E x \in {StdEncoder_encode(e, dp, overflow_checks)} :
           /\ e' = x.e
           /\ panicked' = x.panic
    /\ pts' = Append(pts, dp)
    /\ UNCHANGED <<overflow_checks, phase, base_time, d, out, rd, last, rt>>

Close ==
    /\ phase = "encoding"
    /\ ~panicked
    /\ e' = StdEncoder_close(e)
    /\ d' = StdDecoder_new(BufferedReader_new(writer_close(e'.w)))
    /\ phase' = "decoding"
    /\ UNCHANGED <<overflow_checks, base_time, pts, out, rd, last, rt, panicked>>

DecodeNext ==
    /\ phase = "decoding"
    /\ ~panicked
    /\ Len(out) < MaxCalls
    /\ \E x \in {StdDecoder_next(d, overflow_checks)} :
           /\ d' = x.d
           /\ out' = Append(out, x.res)
           /\ panicked' = (x.res.kind = "panic")
    /\ UNCHANGED <<overflow_checks, phase, base_time, e, pts, rd, last, rt>>

Next ==
    \/ \E dp \in DataPoints : Encode(dp)
    \/ Close
    \/ DecodeNext

Spec == Init /\ [][Next]_vars

\* The same program on the points of the delta of delta codes.
InitDod ==
    /\ overflow_checks \in BOOLEAN
    /\ phase = "encoding"
    /\ base_time = StartTime
    /\ e = StdEncoder_new(base_time, BufferedWriter_new)
    /\ pts = <<>>
    /\ d = StdDecoder_new(NoReader)
    /\ out = <<>>
    /\ rd = NoReader
    /\ last = NoLast
    /\ rt = NoWrites
    /\ panicked = FALSE

NextDod ==
    \/ \E dp \in DodPoints : Encode(dp)
    \/ Close
    \/ DecodeNext

SpecDod == InitDod /\ [][NextDod]_vars

\* The same program on two points: DodFirst, and a point whose delta of
\* delta is any of those of the 7, 9 and 12 bit codes.
ShortDods == (-2047..2048) \ {0}

EncodeShort(dod) ==
    /\ Len(pts) <= 1
    /\ Encode(IF pts = <<>> THEN DodFirst ELSE DataPoint_new(DodTime(dod), F64_1_0))

DecodeShort ==
    /\ Len(out) <= 1
    /\ DecodeNext

NextShort ==
    \/ \E dod \in ShortDods : EncodeShort(dod)
    \/ Close
    \/ DecodeShort

SpecShort == InitDod /\ [][NextShort]_vars

\* The same program on points at a constant interval, with any of XorValues.
EncodeValue(value) ==
    /\ phase = "encoding"
    /\ ~panicked
    /\ Len(pts) < MaxValues
    /\ \E x \in {StdEncoder_encode(e, XorPoint(Len(pts) + 1, value), overflow_checks)} :
           /\ e' = x.e
           /\ panicked' = x.panic
    /\ pts' = Append(pts, XorPoint(Len(pts) + 1, value))
    /\ UNCHANGED <<overflow_checks, phase, base_time, d, out, rd, last, rt>>

NextXor ==
    \/ \E value \in XorValues : EncodeValue(value)
    \/ Close
    \/ DecodeNext

SpecXor == InitDod /\ [][NextXor]_vars

\* The same with the values of WinValues.
NextWin ==
    \/ \E value \in WinValues : EncodeValue(value)
    \/ Close
    \/ DecodeNext

SpecWin == InitDod /\ [][NextWin]_vars

\* A decoder over a byte buffer that no encoder need have produced.
InitDecode ==
    /\ overflow_checks \in BOOLEAN
    /\ phase = "decoding"
    /\ base_time = u64_zero
    /\ e = NoEncoder
    /\ pts = <<>>
    /\ \E bytes \in DecInputs : d = StdDecoder_new(BufferedReader_new(bytes))
    /\ out = <<>>
    /\ rd = NoReader
    /\ last = NoLast
    /\ rt = NoWrites
    /\ panicked = FALSE

NextDecode == DecodeNext

SpecDecode == InitDecode /\ [][NextDecode]_vars

\* The same over AnyInputs.
InitAny ==
    /\ overflow_checks \in BOOLEAN
    /\ phase = "decoding"
    /\ base_time = u64_zero
    /\ e = NoEncoder
    /\ pts = <<>>
    /\ \E bytes \in AnyInputs : d = StdDecoder_new(BufferedReader_new(bytes))
    /\ out = <<>>
    /\ rd = NoReader
    /\ last = NoLast
    /\ rt = NoWrites
    /\ panicked = FALSE

SpecAny == InitAny /\ [][NextDecode]_vars

\* A caller that calls next until it returns an error.
Errors == {"Stream_EOF", "InvalidInitialTimestamp", "InvalidEndOfStream", "EndOfStream"}

can_call ==
    /\ phase = "decoding"
    /\ ~panicked
    /\ \A i \in 1..Len(out) : out[i].kind \notin Errors
    /\ Len(out) < MaxDecodes

DecodeUntilError ==
    /\ can_call
    /\ \E x \in {StdDecoder_next(d, overflow_checks)} :
           /\ d' = x.d
           /\ out' = Append(out, x.res)
           /\ panicked' = (x.res.kind = "panic")
    /\ UNCHANGED <<overflow_checks, phase, base_time, e, pts, rd, last, rt>>

NextUntilError == DecodeUntilError

\* The caller goes on calling: a call that can be made is made.
SpecUntilError == InitAny /\ [][NextUntilError]_vars /\ WF_vars(NextUntilError)

\* A BufferedReader used on its own.
InitRead ==
    /\ overflow_checks \in BOOLEAN
    /\ phase = "reading"
    /\ base_time = u64_zero
    /\ e = NoEncoder
    /\ pts = <<>>
    /\ d = StdDecoder_new(NoReader)
    /\ out = <<>>
    /\ \E bytes \in ReadInputs : rd = BufferedReader_new(bytes)
    /\ last = NoLast
    /\ rt = NoWrites
    /\ panicked = FALSE

\* The calls that consume bits.
ReadCalls == {"read_bit", "read_byte", "read_bits"}

\* One call on rd.  last records the call and its result, the reader before
\* it, the number k of bits the successful reads before it consumed, and
\* whether every call before it was a successful read.
ReadOp(op, n, x, v) ==
    /\ phase = "reading"
    /\ last.count < MaxReads
    /\ rd' = x.r
    /\ last' = [op |-> op, n |-> n, ok |-> x.ok, val |-> v, before |-> rd,
                count |-> last.count + 1,
                k |-> IF last.ok /\ last.op \in ReadCalls THEN last.k + last.n
                      ELSE last.k,
                reads_ok |-> last.reads_ok
                             /\ (last.op = "none" \/ (last.ok /\ last.op \in ReadCalls))]
    /\ UNCHANGED <<overflow_checks, phase, base_time, e, pts, d, out, rt, panicked>>

ReadBit == \E x \in {read_bit(rd)} : ReadOp("read_bit", 1, x, to_u64(x.val))

ReadByte == \E x \in {read_byte(rd)} : ReadOp("read_byte", 8, x, u64_from_nat(x.val))

ReadBits(n) == \E x \in {read_bits(rd, n)} : ReadOp("read_bits", n, x, x.val)

PeakBits(n) == \E x \in {peak_bits(rd, n)} : ReadOp("peak_bits", n, x, x.val)

NextRead ==
    \/ ReadBit
    \/ ReadByte
    \/ \E n \in Widths : ReadBits(n)
    \/ \E n \in Widths : PeakBits(n)

SpecRead == InitRead /\ [][NextRead]_vars

\* A BufferedWriter used on its own, closed, and its calls replayed on a
\* BufferedReader over the bytes it returned; then one more read_bit.
InitBits ==
    /\ overflow_checks \in BOOLEAN
    /\ phase = "writing"
    /\ base_time = u64_zero
    /\ e = NoEncoder
    /\ pts = <<>>
    /\ d = StdDecoder_new(NoReader)
    /\ out = <<>>
    /\ rd = NoReader
    /\ last = NoLast
    /\ rt = NoWrites
    /\ panicked = FALSE

WriteOp(op, n, v, w) ==
    /\ phase = "writing"
    /\ Len(rt.ops) < MaxWrites
    /\ rt' = [rt EXCEPT !.w = w,
                        !.ops = Append(@, [op |-> op, n |-> n, val |-> v])]
    /\ UNCHANGED <<overflow_checks, phase, base_time, e, pts, d, out, rd, last,
                   panicked>>

WriteBit(bit) ==
    \E w \in {write_bit(rt.w, bit)} : WriteOp("write_bit", 1, to_u64(bit), w)

WriteByte(byte) ==
    \E w \in {write_byte(rt.w, byte)} :
        WriteOp("write_byte", 8, u64_from_nat(byte), w)

WriteBits(bits, num) ==
    \E w \in {write_bits(rt.w, bits, num)} : WriteOp("write_bits", num, bits, w)

CloseWriter ==
    /\ phase = "writing"
    /\ rd' = BufferedReader_new(writer_close(rt.w))
    /\ phase' = "replaying"
    /\ UNCHANGED <<overflow_checks, base_time, e, pts, d, out, last, rt, panicked>>

\* The read that matches a write, its value as a u64.
matching_read(r, o) ==
    IF o.op = "write_bit"
    THEN Let(read_bit(r), LAMBDA b : [r |-> b.r, ok |-> b.ok, val |-> to_u64(b.val)])
    ELSE IF o.op = "write_byte"
    THEN Let(read_byte(r), LAMBDA b :
             [r |-> b.r, ok |-> b.ok, val |-> u64_from_nat(b.val)])
    ELSE read_bits(r, o.n)

Replay ==
    /\ phase = "replaying"
    /\ Len(rt.got) < Len(rt.ops)
    /\ \E x \in {matching_read(rd, rt.ops[Len(rt.got) + 1])} :
           /\ rd' = x.r
           /\ rt' = [rt EXCEPT !.got = Append(@, [ok |-> x.ok, val |-> x.val])]
    /\ UNCHANGED <<overflow_checks, phase, base_time, e, pts, d, out, last,
                   panicked>>

ExtraBit ==
    /\ phase = "replaying"
    /\ Len(rt.got) = Len(rt.ops)
    /\ \E x \in {read_bit(rd)} :
           /\ rd' = x.r
           /\ rt' = [rt EXCEPT !.got = Append(@, [ok |-> x.ok, val |-> to_u64(x.val)])]
    /\ UNCHANGED <<overflow_checks, phase, base_time, e, pts, d, out, last,
                   panicked>>

NextBits ==
    \/ \E bit \in {0, 1} : WriteBit(bit)
    \/ \E byte \in WrittenBytes : WriteByte(byte)
    \/ \E f \in WrittenFields : WriteBits(f[1], f[2])
    \/ CloseWriter
    \/ Replay
    \/ ExtraBit

SpecBits == InitBits /\ [][NextBits]_vars

(***************************************************************************)
(* Properties.  The encoded bytes are d.r.bytes from Close on; the bits     *)
(* the encoder wrote are e.w.                                               *)
(***************************************************************************)
bytes_to_bits(bs) == digits([k \in 1..(8 * Len(bs)) |->
                                u8_bit(bs[((k - 1) \div 8) + 1], 7 - ((k - 1) % 8))])

u64_le(x, y) == ~u64_lt(y, x)

StrictlyIncreasing(ps) ==
    \A i \in 1..(Len(ps) - 1) : u64_lt(ps[i].time, ps[i + 1].time)

Kinds(k) == {i \in 1..Len(out) : out[i].kind = k}

\* C1: round trip.  Points with strictly increasing timestamps, encoded from
\* a base time not later than the first of them and closed, decode to
\* exactly those points (same time, same value bit pattern) in order, and
\* then to EndOfStream.
RoundTrip ==
    (/\ phase = "decoding"
     /\ StrictlyIncreasing(pts)
     /\ (pts # <<>> => u64_le(base_time, pts[1].time)))
    => \A i \in 1..Len(out) :
           /\ i <= Len(pts) => /\ out[i].kind = "Point"
                               /\ out[i].time = pts[i].time
                               /\ out[i].value = pts[i].value
           /\ i > Len(pts) => out[i].kind = "EndOfStream"

\* C2: bare header.  An encoder closed without an encode call returns 13
\* bytes: the 64 bits of base_time, most significant first, the end marker
\* 1111 and 32 zero bits, and 4 zero bits of padding.
BareHeader ==
    (phase = "decoding" /\ pts = <<>>)
    => /\ Len(e.w) = 100
       /\ Len(d.r.bytes) = 13
       /\ bytes_to_bits(d.r.bytes) =
              base_time \o <<1, 1, 1, 1>> \o [k \in 1..32 |-> 0]
                        \o <<0, 0, 0, 0>>

BareHeaderWitness ==
    /\ phase = "decoding"
    /\ pts = <<>>
    /\ base_time = StartTime
    /\ d.r.bytes = <<0, 0, 0, 0, 88, 89, 157, 151, 240, 0, 0, 0, 0>>

\* The input of the decoder, as bits.
input_bits == bytes_to_bits(d.r.bytes)

\* The 36 bits that follow the 64-bit header (when the input has them).
marker_word == SubSeq(input_bits, 65, 100)

\* C3: empty-stream detection.  On a 64-bit header immediately followed by
\* the 36-bit end marker, the first call of next returns EndOfStream (and
\* so no point).
EmptyStreamDetected ==
    (/\ Len(input_bits) >= 100
     /\ marker_word = low_bits(END_MARKER, 36)
     /\ out # <<>>)
    => out[1].kind = "EndOfStream"

EmptyStreamWitness ==
    /\ d.r.bytes = StreamEmpty
    /\ Len(out) = 1
    /\ out[1].kind = "EndOfStream"
    /\ d.done

\* C4: terminal idempotence.  Once next has returned EndOfStream, every
\* further call returns EndOfStream and leaves the reader's index and bit
\* position as they were.
TerminalIdempotence ==
    [][(Kinds("EndOfStream") # {} /\ Len(out') = Len(out) + 1)
       => /\ out'[Len(out')].kind = "EndOfStream"
          /\ d'.r.index = d.r.index
          /\ d'.r.pos = d.r.pos]_vars

\* A point, the end of the stream at the next timestamp, and two more calls.
TerminalIdempotenceWitness ==
    /\ Len(out) = 4
    /\ out[1].kind = "Point"
    /\ out[2].kind = "EndOfStream"
    /\ out[3].kind = "EndOfStream"
    /\ out[4].kind = "EndOfStream"

\* C5: corruption detection.  On a full header followed by at least 36 bits
\* of which the first is 1 and which are not the end marker, the first call
\* of next returns InvalidEndOfStream.
CorruptionDetected ==
    (/\ Len(input_bits) >= 100
     /\ marker_word[1] = 1
     /\ marker_word # low_bits(END_MARKER, 36)
     /\ out # <<>>)
    => out[1].kind = "InvalidEndOfStream"

CorruptionWitness ==
    /\ d.r.bytes = StreamBadMarkerA
    /\ Len(out) = 1
    /\ out[1].kind = "InvalidEndOfStream"

\* C6: on an input of fewer than 8 bytes (the empty one included) the first
\* call of next returns InvalidInitialTimestamp, not Stream(EOF).
ShortHeaderRejected ==
    (Len(d.r.bytes) < 8 /\ phase = "decoding" /\ out # <<>>)
    => out[1].kind = "InvalidInitialTimestamp"

ShortHeaderWitness ==
    /\ phase = "decoding"
    /\ Len(d.r.bytes) = 7
    /\ Len(out) = 1
    /\ out[1].kind = "InvalidInitialTimestamp"

\* C7: truncated streams.  On an input with a complete header, a call of
\* next in which the reader runs out of bits (at a control bit, a delta or
\* dod payload, a value payload or the end-marker word) returns Stream(EOF),
\* never EndOfStream or a point.
TruncationIsStreamEOF ==
    (phase = "decoding" /\ Len(d.r.bytes) >= 8)
    => \A i \in 1..Len(out) :
           /\ out[i].eof_at # "none" => out[i].kind = "Stream_EOF"
           /\ out[i].kind \in {"EndOfStream", "Point"} => out[i].eof_at = "none"

\* A point, then a stream that ends inside the 32 bits after 1111.
TruncationWitness ==
    /\ Len(d.r.bytes) >= 8
    /\ Len(out) = 2
    /\ out[1].kind = "Point"
    /\ out[2].kind = "Stream_EOF"
    /\ out[2].eof_at = "dod"

\* Where the value code of the second point starts in e.w: after the
\* header, the first point and the timestamp code of the second point.
second_value_code ==
    Let(StdEncoder_encode(StdEncoder_new(base_time, BufferedWriter_new), pts[1],
                          overflow_checks).e, LAMBDA e1 :
        Len(write_next_timestamp(e1, pts[2].time, overflow_checks).e.w) + 1)

\* C8: the value written for a point is its IEEE-754 bit pattern.  The 64
\* value bits of the first point are bits(v1), and the XOR of a later point
\* is taken from bits(vn): its value code is the single bit 0 exactly when
\* vn has the bit pattern of the value before it.
ValueIsBitPattern ==
    (phase = "encoding" /\ ~panicked)
    => /\ Len(pts) >= 1 => SubSeq(e.w, 80, 143) = pts[1].value
       /\ Len(pts) = 2 => (e.w[second_value_code] = 0
                              <=> pts[2].value = pts[1].value)

\* C9: encode is infallible.  Whatever the encoder's state and the point,
\* a point earlier than the one before it or than base_time included,
\* encode completes, the delta being the difference modulo 2^64.
EncodeInfallible ==
    phase = "encoding"
    => /\ ~panicked
       /\ Len(pts) = 1 => e.delta = u64_wrapping_sub(pts[1].time, base_time)
       /\ Len(pts) = 2 => e.delta = u64_wrapping_sub(pts[2].time, pts[1].time)

\* C10: peak_bits does not advance the reader.  After peak_bits(n) has
\* returned, a value or EOF, index and pos are what they were before the
\* call, and when it returned a value, read_bits(n) called next returns
\* that value.
PeakDoesNotAdvance ==
    [][/\ last'.op = "peak_bits"
          => (rd'.index = rd.index /\ rd'.pos = rd.pos)
       /\ (/\ last.op = "peak_bits"
           /\ last.ok
           /\ last'.op = "read_bits"
           /\ last'.n = last.n)
          => (last'.ok /\ last'.val = last.val)]_vars

\* The number a sequence of at most 64 binary digits stands for, as a u64.
u64_from_digits(s) == digits([i \in 1..W64 |->
                                 IF i <= W64 - Len(s) THEN 0
                                 ELSE s[i - (W64 - Len(s))]])

\* C11: read_bits against the buffer as a sequence of bits, most significant
\* bit of each byte first.  After successful reads that consumed k bits,
\* read_bits(n) returns the number whose digits are bits k..k+n-1 and moves
\* on by n when n bits remain, and returns EOF when fewer remain.
ReadBitsReference ==
    (last.op = "read_bits" /\ last.reads_ok)
    => IF last.k + last.n <= 8 * Len(rd.bytes)
       THEN /\ last.ok
            /\ last.val = u64_from_digits(
                              SubSeq(bytes_to_bits(rd.bytes), last.k + 1,
                                     last.k + last.n))
            /\ 8 * rd.index + rd.pos = last.k + last.n
       ELSE ~last.ok

\* 12 bits read, then 20 bits that start inside a byte.
ReadBitsReferenceWitness ==
    /\ last.op = "read_bits"
    /\ last.reads_ok
    /\ last.k = 12
    /\ last.n = 20
    /\ last.ok
    /\ rd.bytes = <<87, 29, 245, 20>>

\* What the replay of a write is to return: the low n digits written.
written_value(o) == u64_from_digits(low_bits(o.val, o.n))

replay_matches ==
    \A i \in 1..Len(rt.got) :
        i <= Len(rt.ops) => (rt.got[i].ok /\ rt.got[i].val = written_value(rt.ops[i]))

extra_read == rt.got[Len(rt.got)]

\* C12 as claimed: the replay of the writes on a reader over the closed
\* writer's bytes returns the values written (the low n bits for
\* write_bits), and one more read_bit returns EOF.
BitLayerRoundTripEOF ==
    phase = "replaying"
    => /\ replay_matches
       /\ Len(rt.got) = Len(rt.ops) + 1 => ~extra_read.ok

\* C12: the replay returns the values written, and one more read_bit
\* returns EOF when the number of bits written is a multiple of 8, and
\* otherwise the zero bit that pads the last byte.
BitLayerRoundTrip ==
    phase = "replaying"
    => /\ replay_matches
       /\ Len(rt.got) = Len(rt.ops) + 1
          => IF Len(rt.w) % 8 = 0 THEN ~extra_read.ok
             ELSE extra_read.ok /\ extra_read.val = u64_zero

\* A bit, a byte and a field replayed, and the read after them.
BitLayerRoundTripWitness ==
    /\ phase = "replaying"
    /\ Len(rt.ops) = 3
    /\ {rt.ops[i].op : i \in 1..3} = {"write_bit", "write_byte", "write_bits"}
    /\ Len(rt.got) = 4
    /\ rt.got[3].ok

\* The bits of the decoder's input from the reader's position on.
unread_bits ==
    LET bits == input_bits
        k    == 8 * d.r.index + d.r.pos
    IN  IF k >= Len(bits) THEN <<>> ELSE SubSeq(bits, k + 1, Len(bits))

\* The decoder is at a timestamp after the first and the next bits are the
\* prefix `prefix` and a payload of `size` bits.
at_dod_code(prefix, size) ==
    /\ phase = "decoding"
    /\ ~d.first
    /\ ~d.done
    /\ Len(unread_bits) >= Len(prefix) + size
    /\ SubSeq(unread_bits, 1, Len(prefix)) = prefix

dod_payload(prefix, size) ==
    u64_from_digits(SubSeq(unread_bits, Len(prefix) + 1, Len(prefix) + size))

\* C13: the 32-bit step of the decoder.  When read_next_timestamp reads 1111
\* and a 32-bit payload dod that is not zero, delta becomes delta + dod and
\* time becomes time + delta (mod 2^64), and a point returned by that call of
\* next has the new time, as for the 7, 9 and 12 bit codes.
DodStep32 ==
    [][(/\ at_dod_code(<<1, 1, 1, 1>>, 32)
        /\ dod_payload(<<1, 1, 1, 1>>, 32) # u64_zero
        /\ Len(out') = Len(out) + 1)
       => /\ d'.delta = u64_wrapping_add(d.delta, dod_payload(<<1, 1, 1, 1>>, 32))
          /\ d'.time = u64_wrapping_add(d.time, d'.delta)
          /\ out'[Len(out')].kind = "Point"
             => out'[Len(out')].time = d'.time]_vars

\* The low 32 digits of x as a signed number.
signed32(x) ==
    IF x[33] = 1 THEN bits_to_nat(SubSeq(x, 34, 64)) - 2147483647 - 1
    ELSE bits_to_nat(SubSeq(x, 34, 64))

\* The low k digits of the two's complement of dod, k <= 32.
twos_complement(dod, k) ==
    IF k = 32
    THEN IF dod < 0 THEN <<1>> \o nat_to_bits(dod + 2147483647 + 1, 31)
         ELSE <<0>> \o nat_to_bits(dod, 31)
    ELSE nat_to_bits(dod % Pow2(k), k)

\* The table of the delta of delta codes; the first row that matches wins.
dod_code(dod) ==
    IF dod = 0 THEN <<0>>
    ELSE IF dod \in -63..64 THEN <<1, 0>> \o twos_complement(dod, 7)
    ELSE IF dod \in -255..256 THEN <<1, 1, 0>> \o twos_complement(dod, 9)
    ELSE IF dod \in -2047..2048 THEN <<1, 1, 1, 0>> \o twos_complement(dod, 12)
    ELSE <<1, 1, 1, 1>> \o twos_complement(dod, 32)

\* encode is called on a point after the first, and returns.
encodes_next == phase = "encoding" /\ e.first /\ Len(pts') = Len(pts) + 1 /\ ~panicked'

\* The new delta is t - time.
next_delta == e'.delta = u64_wrapping_sub(pts'[Len(pts')].time, e.time)

\* The delta of delta of the point being encoded, (t - time) - delta as a
\* signed 32-bit number (where the new delta is t - time).
next_dod == signed32(u64_wrapping_sub(e'.delta, e.delta))

\* The bits written by the call of encode.
encoded_bits == SubSeq(e'.w, Len(e.w) + 1, Len(e'.w))

\* C14: the code table of the encoder.  For a point after the first with
\* dod = (t - time) - delta as a signed 32-bit number, write_next_timestamp
\* writes the code of the first row of the table that dod matches (0; 10 and
\* 7 bits; 110 and 9 bits; 1110 and 12 bits; 1111 and 32 bits), the value
\* code follows it, and delta and time are then the new delta and t.
DodCodeTable ==
    [][encodes_next
       => /\ next_delta
          /\ e'.time = pts'[Len(pts')].time
          /\ Len(encoded_bits) > Len(dod_code(next_dod))
          /\ SubSeq(encoded_bits, 1, Len(dod_code(next_dod))) = dod_code(next_dod)
          /\ pts'[Len(pts')].value = pts[Len(pts)].value
             => encoded_bits = dod_code(next_dod) \o <<0>>]_vars

\* The point with dod -2048 was encoded after the first point: 1111 and 32
\* bits, then the value bit.
DodCodeTableWitness ==
    /\ phase = "encoding"
    /\ pts = <<DodFirst, DataPoint_new(DodTime(-2048), F64_1_0)>>
    /\ ~panicked
    /\ Len(e.w) = 143 + 4 + 32 + 1

\* The width of the payload of the short code of dod, and the length of its
\* prefix.
short_width(dod) == IF dod \in -63..64 THEN 7 ELSE IF dod \in -255..256 THEN 9 ELSE 12

short_prefix(dod) == IF dod \in -63..64 THEN 2 ELSE IF dod \in -255..256 THEN 3 ELSE 4

\* The delta of delta of the second point, where the first is DodFirst.
second_dod == bits_to_nat(SubSeq(pts[2].time, 34, 64)) - (1482268055 + 3000 + 3000)

\* The payload written for the second point, as the decoder reads it.
second_payload ==
    u64_from_digits(SubSeq(e.w, 143 + short_prefix(second_dod) + 1,
                           143 + short_prefix(second_dod) + short_width(second_dod)))

\* C15: sign extension on the 7, 9 and 12 bit codes.  For every dod but 0 in
\* the encoder's range of a width k, the k-bit payload extended by the test
\* payload > 2^(k-1) and the upper 64-k ones is dod as a 64-bit two's
\* complement number, and the decoder's delta and time after the wrapping
\* additions are the encoder's.
SignExtensionExact ==
    (/\ Len(pts) = 2
     /\ pts[1] = DodFirst
     /\ second_dod \in ShortDods
     /\ ~panicked)
    => /\ \A size \in {short_width(second_dod)} :
              Let(second_payload,
                  LAMBDA payload : sign_extend(payload, size) = i32_as_u64(second_dod))
       /\ Len(out) >= 2
          => /\ out[2].kind = "Point"
             /\ out[2].time = e.time
             /\ Len(out) = 2 => (d.delta = e.delta /\ d.time = e.time)

\* The second point has dod -2047 and was decoded.
SignExtensionWitness ==
    /\ pts = <<DodFirst, DataPoint_new(DodTime(-2047), F64_1_0)>>
    /\ Len(out) = 2
    /\ out[2].kind = "Point"
    /\ out[2].time = DodTime(-2047)

\* A stream of two points whose one step has a delta of delta of Boundaries.
boundary_stream ==
    /\ Len(pts) = 2
    /\ pts[1] = DodFirst
    /\ \E dod \in Boundaries : pts[2] = DataPoint_new(DodTime(dod), F64_1_0)
    /\ ~panicked

\* C16: for each delta of delta of Boundaries, the step is written with the
\* code of the table for it (prefix and width) and the decoder returns the
\* encoded timestamp for the step.
BoundariesRoundTrip ==
    boundary_stream
    => /\ SubSeq(e.w, 144, 143 + Len(dod_code(second_dod)) + 1) = dod_code(second_dod) \o <<0>>
       /\ phase = "encoding" => Len(e.w) = 143 + Len(dod_code(second_dod)) + 1
       /\ Len(out) >= 2 => (out[2].kind = "Point" /\ out[2].time = pts[2].time)

\* C17: the end marker is not a timestamp code.  No call of encode on an
\* encoder that has its first point writes, where the timestamp code goes,
\* 1111 followed by 32 zeros; close writes exactly those 36 bits.
EndMarkerNoCollision ==
    [][/\ encodes_next
          => ~(/\ Len(encoded_bits) >= 36
               /\ SubSeq(encoded_bits, 1, 36) = low_bits(END_MARKER, 36))
       /\ (phase = "encoding" /\ phase' = "decoding")
          => encoded_bits = low_bits(END_MARKER, 36)]_vars

\* A point was encoded whose delta of delta is 2^32, which is 0 as an i32.
EndMarkerNoCollisionWitness ==
    /\ phase = "encoding"
    /\ pts = <<DodFirst, DodFar>>
    /\ ~panicked
    /\ Len(e.w) = 143 + 2

\* The XOR that a call of encode computes for its value, and the bits it
\* writes after the timestamp code.
next_xor == u64_xor(f64_as_u64(pts'[Len(pts')].value), e.value_bits)

value_code == SubSeq(encoded_bits, Len(dod_code(next_dod)) + 1, Len(encoded_bits))

\* A window was opened by an earlier call: one of them had a non-zero XOR.
window_opened == \E i \in 2..Len(pts) : f64_as_u64(pts[i].value) # e.value_bits

\* C18: for a non-zero XOR x, the encoder writes the control bits 1, 0
\* exactly when a window was opened before and leading_zeros(x) and
\* trailing_zeros(x) are at least those of the stored window, and the
\* control bits 1, 1 otherwise.
WindowReuseCondition ==
    [][(encodes_next /\ next_xor # u64_zero)
       => /\ next_delta
          /\ SubSeq(value_code, 1, 2)
             = IF /\ window_opened
                  /\ leading_zeros(next_xor) >= e.leading_zeroes
                  /\ trailing_zeros(next_xor) >= e.trailing_zeroes
               THEN <<1, 0>>
               ELSE <<1, 1>>]_vars

\* A call of encode that writes a non-zero XOR with the control bits c.
writes_window(c) ==
    /\ encodes_next
    /\ next_delta
    /\ next_xor # u64_zero
    /\ SubSeq(value_code, 1, 2) = c

\* C19: on the reuse path the encoder writes, after the control bits 1, 0,
\* the XOR shifted right by the stored trailing_zeroes, in
\* 64 - leading_zeroes - trailing_zeroes bits of the stored window (the
\* number of bits the decoder reads after a reuse bit).
ReusePayload ==
    [][writes_window(<<1, 0>>)
       => value_code = <<1, 0>> \o low_bits(u64_shr(next_xor, e.trailing_zeroes),
                                            64 - e.leading_zeroes - e.trailing_zeroes)]_vars

\* C20: on the new-window path the encoder writes, after the control bits
\* 1, 1, lz in 6 bits, sig - 1 in 6 bits and the XOR shifted right by tz in
\* sig bits, where lz and tz are the leading and trailing zeros of the XOR
\* and sig = 64 - lz - tz, and the stored window becomes (lz, tz).
NewWindowPayload ==
    [][writes_window(<<1, 1>>)
       => \A lz \in {leading_zeros(next_xor)} : \A tz \in {trailing_zeros(next_xor)} :
            /\ value_code = <<1, 1>> \o nat_to_bits(lz, 6) \o nat_to_bits(64 - lz - tz - 1, 6)
                            \o low_bits(u64_shr(next_xor, tz), 64 - lz - tz)
            /\ e'.leading_zeroes = lz
            /\ e'.trailing_zeroes = tz]_vars

\* C21: after encode of a point, the encoder's value_bits are the bit
\* pattern of that point's value (so the XOR of the next call is taken
\* against the value just before it).
XorAgainstPrevious ==
    (phase = "encoding" /\ pts # <<>> /\ ~panicked)
    => e.value_bits = pts[Len(pts)].value

\* C22: no reuse before a window exists.  The first call of encode after
\* the first point whose XOR is not zero writes the control bits 1, 1 (a new
\* window), never 1, 0.
NoReuseBeforeWindow ==
    [][(encodes_next /\ next_xor # u64_zero /\ ~window_opened)
       => /\ next_delta
          /\ SubSeq(value_code, 1, 2) = <<1, 1>>]_vars

\* The third point was the first with a non-zero XOR, and opened the window
\* (60, 3).
NoReuseBeforeWindowWitness ==
    /\ phase = "encoding"
    /\ pts = <<XorPoint(1, F64_4_0), XorPoint(2, F64_4_0), XorPoint(3, F64_12_0)>>
    /\ e.leading_zeroes = 60
    /\ e.trailing_zeroes = 3
    /\ ~panicked

\* C23: the window invariant.  In every state of the encoder, and in every
\* state of a decoder that reads what the encoder wrote, leading_zeroes +
\* trailing_zeroes <= 63 (the counts are u32: a negative trailing_zeroes
\* stands for the wrapped difference 2^32 + trailing_zeroes, and a call that
\* panics on the subtraction has no window to store).
WindowInvariant ==
    /\ e.leading_zeroes >= 0
    /\ e.trailing_zeroes >= 0
    /\ e.leading_zeroes + e.trailing_zeroes <= 63
    /\ phase = "decoding"
       => /\ ~panicked
          /\ d.leading_zeroes >= 0
          /\ d.trailing_zeroes >= 0
          /\ d.leading_zeroes + d.trailing_zeroes <= 63

\* The logical bit offset of a reader.
bit_offset(r) == 8 * r.index + r.pos

\* n consecutive calls of read_bit from r, stopping at the first EOF; val is
\* the number the bits form, first bit first.
RECURSIVE read_bit_times(_, _, _)
read_bit_times(r, n, acc) ==
    IF n = 0 THEN [r |-> r, ok |-> TRUE, val |-> acc]
    ELSE Let(read_bit(r), LAMBDA b :
             IF ~b.ok THEN [r |-> b.r, ok |-> FALSE, val |-> 0]
             ELSE read_bit_times(b.r, n - 1, 2 * acc + b.val))

\* C24: read_byte refines eight calls of read_bit.  From a reader with at
\* least 8 bits left, at position 0, 1..7 or 8 of its byte, read_byte
\* returns the byte the next 8 bits form, most significant first, and
\* leaves the reader at the bit offset eight calls of read_bit lead to; with
\* fewer than 8 bits left it returns EOF.
ReadByteRefinesBits ==
    last.op = "read_byte"
    => \A x \in {read_bit_times(last.before, 8, 0)} :
         IF 8 * Len(rd.bytes) - bit_offset(last.before) >= 8
         THEN /\ x.ok
              /\ last.ok
              /\ last.val = u64_from_nat(x.val)
              /\ last.val = u64_from_digits(SubSeq(bytes_to_bits(rd.bytes),
                                                   bit_offset(last.before) + 1,
                                                   bit_offset(last.before) + 8))
              /\ bit_offset(rd) = bit_offset(x.r)
         ELSE ~last.ok /\ ~x.ok

\* An unaligned byte was read across two bytes of the buffer.
ReadByteRefinesBitsWitness ==
    /\ last.op = "read_byte"
    /\ last.before.pos = 3
    /\ last.ok
    /\ last.val # u64_zero
    /\ rd.index = last.before.index + 1

\* The encoder after new(start) and encode of each point of ps in turn.
RECURSIVE encoder_after(_, _, _)
encoder_after(ps, start, checks) ==
    IF ps = <<>> THEN StdEncoder_new(start, BufferedWriter_new)
    ELSE Let(encoder_after(SubSeq(ps, 1, Len(ps) - 1), start, checks), LAMBDA ee :
             StdEncoder_encode(ee, ps[Len(ps)], checks).e)

\* The decoder has returned k points and nothing else, of at least k encoded.
returned_points(k) ==
    /\ phase = "decoding"
    /\ ~panicked
    /\ Len(out) = k
    /\ k <= Len(pts)
    /\ \A i \in 1..k : out[i].kind = "Point"

\* C25: encoder and decoder in lockstep.  After the decoder has returned its
\* k-th point, its time, delta, value_bits, leading_zeroes and
\* trailing_zeroes are those of the encoder right after its k-th call of
\* encode.
Lockstep ==
    \A k \in 1..Len(pts) :
        returned_points(k)
        => \A ee \in {encoder_after(SubSeq(pts, 1, k), base_time, overflow_checks)} :
             /\ d.time = ee.time
             /\ d.delta = ee.delta
             /\ d.value_bits = ee.value_bits
             /\ d.leading_zeroes = ee.leading_zeroes
             /\ d.trailing_zeroes = ee.trailing_zeroes

\* C26: the decoder is total.  On any bytes, every call of next returns a
\* point or one of the four errors: no call panics on the subtraction
\* 64 - leading_zeroes - significant_digits, on a shift or on an addition to
\* time, and the subtraction never wraps (a negative trailing_zeroes stands
\* for the wrapped difference).
DecoderTotal ==
    phase = "decoding"
    => /\ ~panicked
       /\ \A i \in 1..Len(out) :
            out[i].kind \in {"Point", "Stream_EOF", "InvalidInitialTimestamp",
                             "InvalidEndOfStream", "EndOfStream"}
       /\ d.trailing_zeroes >= 0
       /\ d.leading_zeroes + d.trailing_zeroes <= 64

\* No call of next after one that returned an error of kinds returns a point.
final(kinds) ==
    \A i \in 1..Len(out) : \A j \in 1..Len(out) :
        (i < j /\ out[i].kind \in kinds) => out[j].kind # "Point"

\* C27 as claimed: errors are final.  Once next has returned Stream(EOF),
\* InvalidInitialTimestamp, InvalidEndOfStream or EndOfStream, no later call
\* of next on the decoder returns a point.
ErrorsFinal ==
    final({"Stream_EOF", "InvalidInitialTimestamp", "InvalidEndOfStream", "EndOfStream"})

\* C27 (amended): once next has returned Stream(EOF), InvalidInitialTimestamp
\* or EndOfStream, no later call of next on the decoder returns a point.
ReaderErrorsFinal ==
    final({"Stream_EOF", "InvalidInitialTimestamp", "EndOfStream"})

\* A point, then Stream(EOF), then two more calls.
ReaderErrorsFinalWitness ==
    /\ Len(out) = 4
    /\ out[1].kind = "Point"
    /\ out[2].kind = "Stream_EOF"

\* C28: decoding terminates.  On any bytes, a caller that goes on calling
\* next is returned an error after finitely many calls: the calls stop only
\* on an error, and do so before MaxDecodes of them are made (more than the
\* points any of the inputs has room for).
DecodingTerminates ==
    (phase = "decoding" /\ ~can_call) => \E i \in 1..Len(out) : out[i].kind \in Errors

============================================================================
